---------------------------- MODULE Spec2Model ----------------------------
(***************************************************************************)
(* Model of scripts/log_analyzer.py (class LogAnalyzer).                   *)
(*                                                                         *)
(* Text is modelled character by character: a line, a token, a key of a    *)
(* Counter is a TLA+ string, and the regular expressions, str.strip,       *)
(* str.split, str.lower, the substring tests and datetime.strptime /       *)
(* strftime are operators that scan those strings the way the Python       *)
(* code does.  A collections.Counter is a sequence of <<key, count>>       *)
(* records in insertion order (a Python dict keeps insertion order).       *)
(*                                                                         *)
(* The second part models scripts/backup_manager.py (BackupManager.        *)
(* run_backup): the configuration, the files that exist, and one step per  *)
(* configured destination.                                                 *)
(***************************************************************************)
EXTENDS Integers, Sequences, FiniteSets, TLC

\* log_analyzer.py
VARIABLES source, file, line_num, stats, pc, result, report, findings,
          sections, exit_status

\* backup_manager.py
VARIABLES config, files, step, success, backup_path, checksum, errors,
          history, backup_report, returned

log_vars == <<source, file, line_num, stats, pc, result, report, findings,
              sections, exit_status>>

backup_vars == <<config, files, step, success, backup_path, checksum, errors,
                 history, backup_report, returned>>

vars == <<log_vars, backup_vars>>

(***************************************************************************)
(* Bounds of the model                                                     *)
(***************************************************************************)
MaxLines == 2

MaxDestinations == 2

(***************************************************************************)
(* Characters and character classes (ASCII)                                *)
(***************************************************************************)
Ch(s, i) == SubSeq(s, i, i)

DigitChars == <<"0", "1", "2", "3", "4", "5", "6", "7", "8", "9">>

LowerChars == <<"a", "b", "c", "d", "e", "f", "g", "h", "i", "j", "k", "l", "m",
                "n", "o", "p", "q", "r", "s", "t", "u", "v", "w", "x", "y", "z">>

UpperChars == <<"A", "B", "C", "D", "E", "F", "G", "H", "I", "J", "K", "L", "M",
                "N", "O", "P", "Q", "R", "S", "T", "U", "V", "W", "X", "Y", "Z">>

Range(seq) == {seq[i] : i \in DOMAIN seq}

Min(S) == CHOOSE x \in S : \A y \in S : x <= y

\* The byte that is not valid UTF-8; open(..., errors='ignore') drops it.
InvalidByte == "\f"

Digits == Range(DigitChars)

WordChars == Range(DigitChars) \cup Range(LowerChars) \cup Range(UpperChars) \cup {"_"}

\* The character classes of the patterns, by their regular-expression names.
InClass(class, c) ==
    CASE class = "\\s"       -> c \in {" ", "\t"}
      [] class = "\\S"       -> c \notin {" ", "\t"}
      [] class = "\\d"       -> c \in Digits
      [] class = "\\w"       -> c \in WordChars
      [] class = "[\\w/\\.]" -> c \in WordChars \cup {"/", "."}
      [] class = "[^\\]]"    -> c # "]"
      [] class = "[^\"]"     -> c # "\""

IsSpace(c) == InClass("\\s", c)

IsDigit(c) == InClass("\\d", c)

\* First index j >= i of s whose character is outside the class, Len(s)+1
\* when there is none: the end of the greedy run of the class starting at i.
ScanEnd(s, i, class) ==
    CHOOSE j \in i..(Len(s) + 1) :
        /\ j = Len(s) + 1 \/ ~InClass(class, Ch(s, j))
        /\ \A k \in i..(j - 1) : InClass(class, Ch(s, k))

\* The literal lit occurs in s at index i.
LitAt(s, i, lit) ==
    /\ i >= 1
    /\ i + Len(lit) - 1 <= Len(s)
    /\ SubSeq(s, i, i + Len(lit) - 1) = lit

\* Python's  p in s  for strings.
Contains(s, p) == \E i \in 1..(Len(s) - Len(p) + 1) : LitAt(s, i, p)

LowerOf == [c \in Range(UpperChars) |->
               LowerChars[CHOOSE k \in 1..26 : UpperChars[k] = c]]

LowerChar(c) == IF c \in DOMAIN LowerOf THEN LowerOf[c] ELSE c

\* str.lower(), character by character (the string is halved to keep the
\* recursion shallow)
RECURSIVE Lower(_)
Lower(s) ==
    IF Len(s) = 0 THEN ""
    ELSE IF Len(s) = 1 THEN LowerChar(s)
    ELSE LET h == Len(s) \div 2
         IN  Lower(SubSeq(s, 1, h)) \o Lower(SubSeq(s, h + 1, Len(s)))

\* Decoding with errors='ignore': undecodable bytes are dropped.
RECURSIVE Decode(_)
Decode(raw) ==
    IF Len(raw) = 0 THEN ""
    ELSE IF Len(raw) = 1 THEN (IF raw = InvalidByte THEN "" ELSE raw)
    ELSE LET h == Len(raw) \div 2
         IN  Decode(SubSeq(raw, 1, h)) \o Decode(SubSeq(raw, h + 1, Len(raw)))

\* str.strip()
Strip(s) ==
    LET first == ScanEnd(s, 1, "\\s")
        last  == CHOOSE j \in 0..Len(s) :
                    /\ j = 0 \/ ~IsSpace(Ch(s, j))
                    /\ \A k \in (j + 1)..Len(s) : IsSpace(Ch(s, k))
    IN  IF first > Len(s) THEN "" ELSE SubSeq(s, first, last)

\* str.split(): the maximal runs of non-whitespace, in order.
RECURSIVE SplitFrom(_, _)
SplitFrom(s, i) ==
    LET b == ScanEnd(s, i, "\\s")
        e == ScanEnd(s, b, "\\S")
    IN  IF b > Len(s) THEN <<>>
        ELSE <<SubSeq(s, b, e - 1)>> \o SplitFrom(s, e)

Split(s) == SplitFrom(s, 1)

DigitValue == [c \in Digits |-> (CHOOSE k \in 1..10 : DigitChars[k] = c) - 1]

DigitVal(c) == DigitValue[c]

RECURSIVE ToInt(_)
ToInt(s) == IF s = "" THEN 0
            ELSE 10 * ToInt(SubSeq(s, 1, Len(s) - 1)) + DigitVal(Ch(s, Len(s)))

AllDigits(s) == \A j \in 1..Len(s) : IsDigit(Ch(s, j))

(***************************************************************************)
(* collections.Counter: <<key, count>> records in insertion order          *)
(***************************************************************************)
EmptyCounter == <<>>

Keys(counter) == {counter[i].key : i \in DOMAIN counter}

\* counter[k], which is 0 for a key that is absent
Count(counter, k) ==
    IF k \in Keys(counter)
    THEN counter[CHOOSE i \in DOMAIN counter : counter[i].key = k].n
    ELSE 0

\* Variant: the count is assigned instead of incremented.
Inc_assign(counter, k) ==
    IF k \in Keys(counter)
    THEN [i \in DOMAIN counter |->
            IF counter[i].key = k THEN [key |-> k, n |-> 1] ELSE counter[i]]
    ELSE Append(counter, [key |-> k, n |-> 1])

\* counter[k] += 1 : a new key is appended, an existing one keeps its place
Inc(counter, k) ==
    IF k \in Keys(counter)
    THEN [i \in DOMAIN counter |->
            IF counter[i].key = k THEN [key |-> k, n |-> counter[i].n + 1]
            ELSE counter[i]]
    ELSE Append(counter, [key |-> k, n |-> 1])

RECURSIVE SumCounts(_)
SumCounts(counter) ==
    IF counter = <<>> THEN 0 ELSE Head(counter).n + SumCounts(Tail(counter))

\* self.stats as built by __init__
InitStats ==
    [total_requests  |-> 0,
     status_codes    |-> EmptyCounter,
     top_pages       |-> EmptyCounter,
     top_ips         |-> EmptyCounter,
     hourly_activity |-> EmptyCounter,
     user_agents     |-> EmptyCounter,
     referrers       |-> EmptyCounter]

\* self.log_pattern.match(line), the pattern being
\*
\*   (?P<ip>\S+) - - \[(?P<timestamp>[^\]]+)\]
\*   "(?P<method>\w+) (?P<url>\S+) (?P<protocol>[\w/\.]+)"
\*   (?P<status>\d+) (?P<size>\d+) "(?P<referrer>[^"]*)" "(?P<user_agent>[^"]*)"
\*
\* Every character class excludes the literal that follows it, so the
\* greedy run is the only way each group can match and the scan below is
\* the whole of the matcher's behaviour.  match() anchors at the start of
\* the line and accepts trailing text.
NoMatch == [matched |-> FALSE]

log_pattern(line) ==
    LET e1 == ScanEnd(line, 1, "\\S")            \* ip
        p2 == e1 + 6
        e2 == ScanEnd(line, p2, "[^\\]]")        \* timestamp
        p3 == e2 + 3
        e3 == ScanEnd(line, p3, "\\w")               \* method
        p4 == e3 + 1
        e4 == ScanEnd(line, p4, "\\S")           \* url
        p5 == e4 + 1
        e5 == ScanEnd(line, p5, "[\\w/\\.]")          \* protocol
        p6 == e5 + 2
        e6 == ScanEnd(line, p6, "\\d")              \* status
        p7 == e6 + 1
        e7 == ScanEnd(line, p7, "\\d")              \* size
        p8 == e7 + 2
        e8 == ScanEnd(line, p8, "[^\"]")           \* referrer
        p9 == e8 + 3
        e9 == ScanEnd(line, p9, "[^\"]")           \* user_agent
    IN  IF /\ e1 > 1  /\ LitAt(line, e1, " - - [")
           /\ e2 > p2 /\ LitAt(line, e2, "] \"")
           /\ e3 > p3 /\ LitAt(line, e3, " ")
           /\ e4 > p4 /\ LitAt(line, e4, " ")
           /\ e5 > p5 /\ LitAt(line, e5, "\" ")
           /\ e6 > p6 /\ LitAt(line, e6, " ")
           /\ e7 > p7 /\ LitAt(line, e7, " \"")
           /\ LitAt(line, e8, "\" \"")
           /\ LitAt(line, e9, "\"")
        THEN [matched    |-> TRUE,
              ip         |-> SubSeq(line, 1, e1 - 1),
              timestamp  |-> SubSeq(line, p2, e2 - 1),
              method     |-> SubSeq(line, p3, e3 - 1),
              url        |-> SubSeq(line, p4, e4 - 1),
              protocol   |-> SubSeq(line, p5, e5 - 1),
              status     |-> SubSeq(line, p6, e6 - 1),
              size       |-> SubSeq(line, p7, e7 - 1),
              referrer   |-> SubSeq(line, p8, e8 - 1),
              user_agent |-> SubSeq(line, p9, e9 - 1)]
        ELSE NoMatch

(***************************************************************************)
(* datetime.strptime(s, '%d/%b/%Y:%H:%M:%S') and dt.strftime('%H:00')      *)
(***************************************************************************)
MonthAbbr == <<"jan", "feb", "mar", "apr", "may", "jun",
               "jul", "aug", "sep", "oct", "nov", "dec">>

IsLeap(y) == (y % 4 = 0 /\ y % 100 # 0) \/ y % 400 = 0

DaysInMonth(y, m) ==
    IF m = 2 THEN (IF IsLeap(y) THEN 29 ELSE 28)
    ELSE IF m \in {4, 6, 9, 11} THEN 30 ELSE 31

\* A one- or two-digit field whose value lies in lo..hi.
NumField(f, lo, hi) ==
    /\ Len(f) \in {1, 2}
    /\ AllDigits(f)
    /\ ToInt(f) >= lo
    /\ ToInt(f) <= hi

\* [ok |-> TRUE, hour |-> h] when s parses, [ok |-> FALSE] when strptime
\* raises ValueError.
strptime(s) ==
    LET e1 == ScanEnd(s, 1, "\\d")
        dd == SubSeq(s, 1, e1 - 1)
        mm == Lower(SubSeq(s, e1 + 1, e1 + 3))
        yy == SubSeq(s, e1 + 5, e1 + 8)
        p4 == e1 + 10
        e4 == ScanEnd(s, p4, "\\d")
        hh == SubSeq(s, p4, e4 - 1)
        e5 == ScanEnd(s, e4 + 1, "\\d")
        mi == SubSeq(s, e4 + 1, e5 - 1)
        e6 == ScanEnd(s, e5 + 1, "\\d")
        ss == SubSeq(s, e5 + 1, e6 - 1)
    IN  IF /\ NumField(dd, 1, 31)
           /\ LitAt(s, e1, "/")
           /\ e1 + 3 <= Len(s)
           /\ mm \in Range(MonthAbbr)
           /\ LitAt(s, e1 + 4, "/")
           /\ e1 + 8 <= Len(s)
           /\ AllDigits(yy)
           /\ ToInt(yy) >= 1
           /\ LitAt(s, e1 + 9, ":")
           /\ NumField(hh, 0, 23)
           /\ LitAt(s, e4, ":")
           /\ NumField(mi, 0, 59)
           /\ LitAt(s, e5, ":")
           /\ NumField(ss, 0, 59)
           /\ e6 = Len(s) + 1
           /\ ToInt(dd) <= DaysInMonth(ToInt(yy),
                               CHOOSE m \in 1..12 : MonthAbbr[m] = mm)
        THEN [ok |-> TRUE, hour |-> ToInt(hh)]
        ELSE [ok |-> FALSE]

\* dt.strftime('%H:00')
strftime(hour) ==
    DigitChars[(hour \div 10) + 1] \o DigitChars[(hour % 10) + 1] \o ":00"

(***************************************************************************)
(* _process_log_entry                                                      *)
(***************************************************************************)
\* Variant: safari is tested ahead of chrome.
Browser_safari_first(user_agent) ==
    LET ua == Lower(user_agent)
    IN  IF Contains(ua, "safari") THEN "Safari"
        ELSE IF Contains(ua, "chrome") THEN "Chrome"
        ELSE IF Contains(ua, "firefox") THEN "Firefox"
        ELSE IF Contains(ua, "edge") THEN "Edge"
        ELSE IF Contains(ua, "bot") \/ Contains(ua, "crawler") THEN "Bot/Crawler"
        ELSE "Other"

\* The browser bucket of a user agent (the if/elif chain on ua.lower()).
Browser(user_agent) ==
    LET ua == Lower(user_agent)
    IN  IF Contains(ua, "chrome") THEN "Chrome"
        ELSE IF Contains(ua, "firefox") THEN "Firefox"
        ELSE IF Contains(ua, "safari") /\ ~Contains(ua, "chrome") THEN "Safari"
        ELSE IF Contains(ua, "edge") THEN "Edge"
        ELSE IF Contains(ua, "bot") \/ Contains(ua, "crawler") THEN "Bot/Crawler"
        ELSE "Other"

\* The body of the try block: entry['timestamp'].split()[0] raises
\* IndexError on a timestamp with no token, strptime raises ValueError.
HourOf(timestamp) ==
    LET parts == Split(timestamp)
    IN  IF parts = <<>> THEN [ok |-> FALSE]
        ELSE LET dt == strptime(parts[1])
             IN  IF dt.ok THEN [ok |-> TRUE, hour |-> strftime(dt.hour)]
                 ELSE [ok |-> FALSE]

\* Variant: an unparseable timestamp is counted under a default hour.
HourlyActivity_default(counter, timestamp) ==
    LET h == HourOf(timestamp)
    IN  IF h.ok THEN [counter |-> Inc(counter, h.hour), raised |-> FALSE]
        ELSE [counter |-> Inc(counter, "00:00"), raised |-> FALSE]

\* Variant: the try block has no except clause.
HourlyActivity_uncaught(counter, timestamp) ==
    LET h == HourOf(timestamp)
    IN  IF h.ok THEN [counter |-> Inc(counter, h.hour), raised |-> FALSE]
        ELSE [counter |-> counter, raised |-> TRUE]

\* try: ... hourly_activity[hour] += 1  except: pass
\* raised tells whether an exception leaves the block.
HourlyActivity(counter, timestamp) ==
    LET h == HourOf(timestamp)
    IN  IF h.ok THEN [counter |-> Inc(counter, h.hour), raised |-> FALSE]
        ELSE [counter |-> counter, raised |-> FALSE]

_process_log_entry(st, entry) ==
    LET hourly == HourlyActivity(st.hourly_activity, entry.timestamp)
    IN  [raised |-> hourly.raised,
         stats  |->
            [total_requests  |-> st.total_requests + 1,
             status_codes    |-> Inc(st.status_codes, entry.status),
             top_pages       |-> Inc(st.top_pages, entry.url),
             top_ips         |-> Inc(st.top_ips, entry.ip),
             hourly_activity |-> hourly.counter,
             user_agents     |->
                IF ~hourly.raised /\ entry.user_agent # "" /\ entry.user_agent # "-"
                THEN Inc(st.user_agents, Browser(entry.user_agent))
                ELSE st.user_agents,
             referrers       |->
                IF ~hourly.raised /\ entry.referrer # "" /\ entry.referrer # "-"
                THEN Inc(st.referrers, entry.referrer)
                ELSE st.referrers]]

(***************************************************************************)
(* _parse_fallback                                                         *)
(***************************************************************************)
MinParts == 7

\* re.match(r'\d+\.\d+\.\d+\.\d+', part): a prefix match
LooksLikeIP(part) ==
    LET e1 == ScanEnd(part, 1, "\\d")
        e2 == ScanEnd(part, e1 + 1, "\\d")
        e3 == ScanEnd(part, e2 + 1, "\\d")
        e4 == ScanEnd(part, e3 + 1, "\\d")
    IN  /\ e1 > 1      /\ LitAt(part, e1, ".")
        /\ e2 > e1 + 1 /\ LitAt(part, e2, ".")
        /\ e3 > e2 + 1 /\ LitAt(part, e3, ".")
        /\ e4 > e3 + 1

\* re.match(r'^\d{3}$', part)
LooksLikeStatus(part) == Len(part) = 3 /\ AllDigits(part)

\* '/' in part and 'HTTP' not in part
LooksLikeURL(part) == Contains(part, "/") /\ ~Contains(part, "HTTP")

\* for part in parts: if <test of part>: counter[part] += 1; break
\* hits are the positions of the parts that pass the test.
IncFirst(counter, parts, hits) ==
    IF hits = {} THEN counter ELSE Inc(counter, parts[Min(hits)])

IPHits(parts) == {i \in DOMAIN parts : LooksLikeIP(parts[i])}

StatusHits(parts) == {i \in DOMAIN parts : LooksLikeStatus(parts[i])}

URLHits(parts) == {i \in DOMAIN parts : LooksLikeURL(parts[i])}

\* Variant: the line is not counted as a request.
_parse_fallback_uncounted(st, line) ==
    LET parts == Split(line)
    IN  IF Len(parts) >= MinParts
        THEN [st EXCEPT
                !.top_ips        = IncFirst(@, parts, IPHits(parts)),
                !.status_codes   = IncFirst(@, parts, StatusHits(parts)),
                !.top_pages      = IncFirst(@, parts, URLHits(parts))]
        ELSE st

\* Variant: the heuristics run whatever the number of tokens.
_parse_fallback_any_length(st, line) ==
    LET parts == Split(line)
    IN  [st EXCEPT
            !.top_ips        = IncFirst(@, parts, IPHits(parts)),
            !.status_codes   = IncFirst(@, parts, StatusHits(parts)),
            !.top_pages      = IncFirst(@, parts, URLHits(parts)),
            !.total_requests = @ + 1]

_parse_fallback(st, line) ==
    LET parts == Split(line)
    IN  IF Len(parts) >= MinParts
        THEN [st EXCEPT
                !.top_ips        = IncFirst(@, parts, IPHits(parts)),
                !.status_codes   = IncFirst(@, parts, StatusHits(parts)),
                !.top_pages      = IncFirst(@, parts, URLHits(parts)),
                !.total_requests = @ + 1]
        ELSE st

(***************************************************************************)
(* _check_security_issues: the findings, in the order they are printed     *)
(***************************************************************************)
\* The backquote character, which the string syntax of TLA+ cannot write.
Backquote == "\r"

suspicious_agents == <<"sqlmap", "nikto", "metasploit", "nmap", "havij">>

attack_patterns ==
    << [name |-> "SQL Injection",
        patterns |-> <<"union select", "or 1=1", "drop table", "insert into">>],
       [name |-> "XSS",
        patterns |-> <<"<script>", "javascript:", "onload=", "onerror=">>],
       [name |-> "Path Traversal",
        patterns |-> <<"../", "..\\", "/etc/passwd">>],
       [name |-> "Command Injection",
        patterns |-> <<";ls", "|cat", Backquote \o "id" \o Backquote, "$(whoami)">>] >>

SuspiciousAgent == "Suspicious user agent"

RECURSIVE ConcatAll(_)
ConcatAll(seqs) ==
    IF seqs = <<>> THEN <<>> ELSE Head(seqs) \o ConcatAll(Tail(seqs))

Finding(category, evidence) == [category |-> category, evidence |-> evidence]

\* for agent in suspicious_agents: for ua in self.stats['user_agents']: ...
AgentFindings(st) ==
    ConcatAll([a \in DOMAIN suspicious_agents |->
        ConcatAll([i \in DOMAIN st.user_agents |->
            IF Contains(Lower(st.user_agents[i].key), suspicious_agents[a])
            THEN <<Finding(SuspiciousAgent, st.user_agents[i].key)>>
            ELSE <<>>])])

\* Variant: the loop over the patterns stops at the first hit.
PatternFindings_break(name, patterns, url) ==
    IF \E p \in DOMAIN patterns : Contains(Lower(url), patterns[p])
    THEN <<Finding(name, url)>>
    ELSE <<>>

\* for pattern in patterns: if pattern in url_lower: print(...)
PatternFindings(name, patterns, url) ==
    LET url_lower == Lower(url)
    IN  ConcatAll([p \in DOMAIN patterns |->
            IF Contains(url_lower, patterns[p])
            THEN <<Finding(name, url)>>
            ELSE <<>>])

\* for pattern_name, patterns in attack_patterns: for url in top_pages: ...
AttackFindings(st) ==
    ConcatAll([c \in DOMAIN attack_patterns |->
        ConcatAll([i \in DOMAIN st.top_pages |->
            PatternFindings(attack_patterns[c].name,
                            attack_patterns[c].patterns,
                            st.top_pages[i].key)])])

_check_security_issues(st) == AgentFindings(st) \o AttackFindings(st)

(***************************************************************************)
(* create_sample_log: the twelve lines of the sample file                  *)
(***************************************************************************)
create_sample_log ==
    <<
       "192.168.1.100 - - [25/Dec/2023:10:15:32 +0000] \"GET /index.html HTTP/1.1\" 200 1524 \"https://example.com\" \"Mozilla/5.0 (Windows NT 10.0; Win64; x64) AppleWebKit/537.36\"",
       "192.168.1.101 - - [25/Dec/2023:10:15:33 +0000] \"GET /about.html HTTP/1.1\" 200 2341 \"https://example.com\" \"Mozilla/5.0 (Macintosh; Intel Mac OS X 10_15_7) AppleWebKit/537.36\"",
       "192.168.1.102 - - [25/Dec/2023:10:15:34 +0000] \"GET /contact.php HTTP/1.1\" 200 1876 \"-\" \"Mozilla/5.0 (X11; Linux x86_64) AppleWebKit/537.36\"",
       "192.168.1.103 - - [25/Dec/2023:10:15:35 +0000] \"GET /old-page.html HTTP/1.1\" 404 342 \"-\" \"Mozilla/5.0 (Windows NT 10.0; Win64; x64) Chrome/91.0.4472.124\"",
       "192.168.1.104 - - [25/Dec/2023:10:15:36 +0000] \"GET /admin/login HTTP/1.1\" 403 512 \"-\" \"Mozilla/5.0 (Windows NT 10.0; Win64; x64) Firefox/89.0\"",
       "192.168.1.105 - - [25/Dec/2023:10:15:37 +0000] \"GET /api/users HTTP/1.1\" 200 876 \"https://app.example.com\" \"Mozilla/5.0 (Macintosh; Intel Mac OS X 10_15_7) Safari/537.36\"",
       "192.168.1.100 - - [25/Dec/2023:10:15:38 +0000] \"GET /products/item123 HTTP/1.1\" 200 1543 \"https://example.com\" \"Mozilla/5.0 (Windows NT 10.0; Win64; x64) Edge/91.0.864.59\"",
       "192.168.1.106 - - [25/Dec/2023:10:15:39 +0000] \"GET /wp-admin HTTP/1.1\" 404 321 \"-\" \"sqlmap/1.4.2\"",
       "192.168.1.107 - - [25/Dec/2023:10:15:40 +0000] \"GET /search?q=<script>alert('xss')</script> HTTP/1.1\" 200 765 \"-\" \"Mozilla/5.0 (Windows NT 10.0; Win64; x64)\"",
       "192.168.1.108 - - [25/Dec/2023:10:15:41 +0000] \"GET /../../../etc/passwd HTTP/1.1\" 403 498 \"-\" \"Mozilla/5.0 (X11; Linux x86_64)\"",
       "192.168.1.109 - - [25/Dec/2023:10:15:42 +0000] \"POST /login HTTP/1.1\" 200 432 \"https://example.com\" \"Mozilla/5.0 (Windows NT 10.0; Win64; x64) Chrome/91.0.4472.124\"",
       "192.168.1.110 - - [25/Dec/2023:10:15:43 +0000] \"GET /images/logo.png HTTP/1.1\" 200 2345 \"https://example.com\" \"Mozilla/5.0 (Macintosh; Intel Mac OS X 10_15_7) AppleWebKit/537.36\"" >>

(***************************************************************************)
(* Input lines of the model                                                *)
(***************************************************************************)
\* A line in Combined Log Format.
CLF(ip, timestamp, url, status, referrer, user_agent) ==
    ip \o " - - [" \o timestamp \o "] \"GET " \o url \o " HTTP/1.1\" "
       \o status \o " 512 \"" \o referrer \o "\" \"" \o user_agent \o "\""

GoodTime == "25/Dec/2023:10:15:32 +0000"

MatchingLines ==
    { CLF("10.0.0.1", GoodTime, "/index.html", "200", "https://example.com",
          "Mozilla/5.0 Chrome/91.0 Safari/537.36"),
      CLF("10.0.0.2", "5/dec/2023:9:05:00 +0000", "/search?q=<SCRIPT>", "200", "-",
          "Mozilla/5.0 Chrome/91.0 Edge/18.0"),
      CLF("10.0.0.3", GoodTime, "/../etc/passwd", "404", "-", "sqlmap/1.4.2"),
      CLF("10.0.0.1", "31/Feb/2023:10:15:32 +0000", "/index.html", "200",
          "https://example.com", "Mozilla/5.0 Firefox/89.0"),
      CLF("10.0.0.4", " ", "/a;ls|cat", "999", "", "-"),
      CLF("10.0.0.5", "25/Dec/2023:24:00:00", "/b", "403", "-", "Googlebot Chrome/91.0"),
      "  " \o CLF("10.0.0.6", GoodTime, "/c", "500", "/c", "curl/7.0") \o " \t",
      CLF("10." \o InvalidByte \o "0.0.7", GoodTime, "/d", "200", "-", "") \o " trailing" }

FallbackLines ==
    { "10.0.0.9 bob [25/Dec/2023] GET /a.php HTTP/1.1 200 12",
      "GET\t/index.html\tHTTP/1.1\t404\t10\t-\t-",
      "a b c d e f g",
      "x1.2.3.4 2000 HTTP/1.1 d e f g h" }

ShortLines ==
    { "1.2.3.4 200 /x",
      "10.0.0.1 - - [" \o GoodTime \o "]" }

BlankLines == { "", InvalidByte \o " \t" }

TestLines == MatchingLines \cup FallbackLines \cup ShortLines \cup BlankLines

RECURSIVE SeqsUpTo(_, _)
SeqsUpTo(S, n) ==
    IF n = 0 THEN {<<>>}
    ELSE LET shorter == SeqsUpTo(S, n - 1)
         IN  shorter \cup {Append(f, x) : f \in {g \in shorter : Len(g) = n - 1}, x \in S}

\* A file in which the address, the page and the status that come second
\* are requested twice.
RepeatLog ==
    << CLF("10.0.0.3", GoodTime, "/../etc/passwd", "404", "-", "sqlmap/1.4.2"),
       CLF("10.0.0.1", GoodTime, "/index.html", "200", "https://example.com",
           "Mozilla/5.0 Chrome/91.0 Safari/537.36"),
       CLF("10.0.0.1", "31/Feb/2023:10:15:32 +0000", "/index.html", "200",
           "https://example.com", "Mozilla/5.0 Firefox/89.0") >>

Files == SeqsUpTo(TestLines, MaxLines) \cup {create_sample_log, RepeatLog}

(***************************************************************************)
(* generate_report: the sections of the printed report                     *)
(***************************************************************************)
\* Counter.most_common() is sorted(items, key=count, reverse=True): a stable
\* sort, so items of equal count keep their insertion order.
Rank(counter, i) ==
    Cardinality({j \in DOMAIN counter :
                    \/ counter[j].n > counter[i].n
                    \/ counter[j].n = counter[i].n /\ j < i}) + 1

\* Variant: items of equal count come in reverse insertion order.
sorted_items_last_first(counter) ==
    [r \in DOMAIN counter |->
        counter[CHOOSE i \in DOMAIN counter :
                  Cardinality({j \in DOMAIN counter :
                      \/ counter[j].n > counter[i].n
                      \/ counter[j].n = counter[i].n /\ j > i}) + 1 = r]]

sorted_items(counter) ==
    [r \in DOMAIN counter |->
        counter[CHOOSE i \in DOMAIN counter : Rank(counter, i) = r]]

\* Counter.most_common(n) is heapq.nlargest(n, items, key=count), which is
\* sorted(items, key=count, reverse=True)[:n].
most_common(counter, n) ==
    SubSeq(sorted_items(counter), 1, Min({n, Len(counter)}))

TopN == 10

HoursShown == 24

\* (count / total) * 100 printed with {:.1f}, in tenths of a percent:
\* rounded to the nearest tenth, a half to the even one.
Percentage(count, total) ==
    LET floor == (count * 1000) \div total
        twice == 2 * ((count * 1000) % total)
    IN  IF twice > total \/ (twice = total /\ floor % 2 = 1)
        THEN floor + 1 ELSE floor

_get_status_name(code) ==
    CASE code = "200" -> "OK"
      [] code = "301" -> "Moved Permanently"
      [] code = "302" -> "Found"
      [] code = "304" -> "Not Modified"
      [] code = "400" -> "Bad Request"
      [] code = "401" -> "Unauthorized"
      [] code = "403" -> "Forbidden"
      [] code = "404" -> "Not Found"
      [] code = "500" -> "Internal Server Error"
      [] code = "502" -> "Bad Gateway"
      [] code = "503" -> "Service Unavailable"
      [] OTHER -> "Unknown"

\* One printed line per item: key, count and percentage of total_requests.
Rows(items, total) ==
    [r \in DOMAIN items |->
        [key |-> items[r].key, n |-> items[r].n,
         percentage |-> Percentage(items[r].n, total)]]

PageExtensions == {".php", ".html", ".js", ".css", ".jpg", ".png"}

\* "Top missing pages", printed when there is a 404
MissingPages(st) ==
    IF Count(st.status_codes, "404") > 0
    THEN SelectSeq(most_common(st.top_pages, TopN),
                   LAMBDA item : \E ext \in PageExtensions : Contains(item.key, ext))
    ELSE <<>>

NoSections ==
    [status_codes |-> <<>>, status_names |-> <<>>, missing_pages |-> <<>>,
     top_pages |-> <<>>, top_ips |-> <<>>, hourly_activity |-> <<>>,
     user_agents |-> <<>>, security_checks |-> FALSE]

ReportSections(st) ==
    LET total == st.total_requests
        codes == sorted_items(st.status_codes)
    IN  [status_codes    |-> Rows(codes, total),
         status_names    |-> [r \in DOMAIN codes |-> _get_status_name(codes[r].key)],
         missing_pages   |-> MissingPages(st),
         top_pages       |-> Rows(most_common(st.top_pages, TopN), total),
         top_ips         |-> Rows(most_common(st.top_ips, TopN), total),
         hourly_activity |-> Rows(most_common(st.hourly_activity, HoursShown), total),
         user_agents     |-> Rows(sorted_items(st.user_agents), total),
         security_checks |-> TRUE]

\* Variant: the report is printed whatever total_requests is.
HasNoData_unguarded(st) == FALSE

\* if self.stats['total_requests'] == 0: print(...); return
HasNoData(st) == st.total_requests = 0

\* count / total_requests raises ZeroDivisionError for the first printed item
DividesByZero(st) ==
    /\ st.total_requests = 0
    /\ \E d \in {"status_codes", "top_pages", "top_ips", "hourly_activity",
                  "user_agents"} : st[d] # <<>>

\* exit_status while the process has not exited
Running == -1

(***************************************************************************)
(* BackupManager: the configuration                                        *)
(***************************************************************************)
\* A value of 'retention_days' as json.load delivers it: an int or None.
Days(n) == [type |-> "int", days |-> n]

NoDays == [type |-> "NoneType", days |-> 0]

\* 'cloud_storage': None
NoCloud == [type |-> "None", bucket |-> "None"]

\* self.config as __init__ builds it
DefaultConfig ==
    [backup_sources      |-> <<>>,
     backup_destinations |-> <<>>,
     compression         |-> "tar.gz",
     encryption          |-> FALSE,
     encryption_key      |-> "None",
     retention_days      |-> Days(30),
     cloud_storage       |-> NoCloud]

\* No BackupManager has been constructed.
NoBackup ==
    /\ config = DefaultConfig
    /\ files = {}
    /\ step = "idle"
    /\ success = TRUE
    /\ backup_path = "None"
    /\ checksum = "None"
    /\ errors = <<>>
    /\ history = <<>>
    /\ backup_report = <<>>
    /\ returned = "None"

(***************************************************************************)
(* The run: parse_log_file, then generate_report                           *)
(***************************************************************************)
Init ==
    /\ source \in {"ok", "missing", "unopenable"}
    /\ file \in (IF source = "ok" THEN Files ELSE {<<>>})
    /\ line_num = 0
    /\ stats = InitStats
    /\ pc = "start"
    /\ result = "None"
    /\ report = "None"
    /\ findings = <<>>
    /\ sections = NoSections
    /\ exit_status = Running
    /\ NoBackup

\* if not os.path.exists(self.log_file): return False
NotFound ==
    /\ pc = "start"
    /\ source = "missing"
    /\ result' = "False"
    /\ pc' = "returned"
    /\ UNCHANGED <<source, file, line_num, stats, report, findings, sections, exit_status>>
    /\ UNCHANGED backup_vars

\* open() raises; except Exception: return False
OpenError ==
    /\ pc = "start"
    /\ source = "unopenable"
    /\ result' = "False"
    /\ pc' = "returned"
    /\ UNCHANGED <<source, file, line_num, stats, report, findings, sections, exit_status>>
    /\ UNCHANGED backup_vars

OpenFile ==
    /\ pc = "start"
    /\ source = "ok"
    /\ pc' = "reading"
    /\ line_num' = 1
    /\ UNCHANGED <<source, file, stats, result, report, findings, sections, exit_status>>
    /\ UNCHANGED backup_vars

\* line = line.strip() of the decoded line that the iteration is at
CurrentLine == Strip(Decode(file[line_num]))

AtLine == pc = "reading" /\ line_num <= Len(file)

\* if not line: continue
SkipBlankLine ==
    /\ AtLine
    /\ CurrentLine = ""
    /\ line_num' = line_num + 1
    /\ UNCHANGED <<source, file, stats, pc, result, report, findings, sections, exit_status>>
    /\ UNCHANGED backup_vars

\* if match: self._process_log_entry(match.groupdict(), line_num)
\* An exception that leaves it is caught by  except Exception: return False
MatchedLine ==
    /\ AtLine
    /\ CurrentLine # ""
    /\ log_pattern(CurrentLine).matched
    /\ LET r == _process_log_entry(stats, log_pattern(CurrentLine))
       IN  /\ stats' = r.stats
           /\ IF r.raised
              THEN /\ result' = "False"
                   /\ pc' = "returned"
                   /\ UNCHANGED line_num
              ELSE /\ line_num' = line_num + 1
                   /\ UNCHANGED <<pc, result>>
    /\ UNCHANGED <<source, file, report, findings, sections, exit_status>>
    /\ UNCHANGED backup_vars

\* else: self._parse_fallback(line, line_num)
FallbackLine ==
    /\ AtLine
    /\ CurrentLine # ""
    /\ ~log_pattern(CurrentLine).matched
    /\ stats' = _parse_fallback(stats, CurrentLine)
    /\ line_num' = line_num + 1
    /\ UNCHANGED <<source, file, pc, result, report, findings, sections, exit_status>>
    /\ UNCHANGED backup_vars

\* the for loop is exhausted: return True
EndOfFile ==
    /\ pc = "reading"
    /\ line_num > Len(file)
    /\ result' = "True"
    /\ pc' = "returned"
    /\ UNCHANGED <<source, file, line_num, stats, report, findings, sections, exit_status>>
    /\ UNCHANGED backup_vars

\* main: if analyzer.parse_log_file(): analyzer.generate_report()
\* generate_report: no report and no security check without requests
generate_report ==
    /\ pc = "returned"
    /\ result = "True"
    /\ IF HasNoData(stats)
       THEN /\ report' = "No valid log entries found!"
            /\ pc' = "done"
            /\ UNCHANGED <<findings, sections>>
       ELSE IF DividesByZero(stats)
       THEN /\ report' = "ZeroDivisionError"
            /\ pc' = "crashed"
            /\ UNCHANGED <<findings, sections>>
       ELSE /\ report' = "LOG ANALYSIS REPORT"
            /\ sections' = ReportSections(stats)
            /\ findings' = _check_security_issues(stats)
            /\ pc' = "done"
    /\ UNCHANGED <<source, file, line_num, stats, result, exit_status>>
    /\ UNCHANGED backup_vars

\* main returns, or an exception leaves it: the interpreter exits.  main
\* has no sys.exit, so a run that returns from main exits with status 0.
main_exit ==
    /\ \/ pc = "returned" /\ result = "False"
       \/ pc = "done"
       \/ pc = "crashed"
    /\ exit_status' = IF pc = "crashed" THEN 1 ELSE 0
    /\ pc' = "exited"
    /\ UNCHANGED <<source, file, line_num, stats, result, report, findings,
                   sections>>
    /\ UNCHANGED backup_vars

Next ==
    \/ NotFound
    \/ OpenError
    \/ OpenFile
    \/ SkipBlankLine
    \/ MatchedLine
    \/ FallbackLine
    \/ EndOfFile
    \/ generate_report
    \/ main_exit

Spec == Init /\ [][Next]_vars

(***************************************************************************)
(* BackupManager: paths and the file system                                *)
(***************************************************************************)
\* The directories and files that exist when run_backup starts.
ExistingDirs == {"/", "/data", "/backups", "/srv"}

ExistingFiles == {"/data/notes.txt"}

SourceLists == { <<"/data">>, <<"/data", "/missing">>, <<"/data/notes.txt">> }

Destinations == {"/backups", "/srv/backups", "/mnt/none/backups"}

CloudConfigs ==
    { NoCloud,
      [type |-> "s3", bucket |-> "vault"],
      [type |-> "gcs", bucket |-> "vault"],
      [type |-> "ftp", bucket |-> "vault"] }

Configs ==
    [backup_sources      : SourceLists,
     backup_destinations : SeqsUpTo(Destinations, MaxDestinations),
     compression         : {"tar.gz", "zip"},
     encryption          : BOOLEAN,
     encryption_key      : {"None", "secret"},
     retention_days      : {Days(30), NoDays},
     cloud_storage       : CloudConfigs]

\* Path(p).parent of an absolute path
LastSlash(p) == CHOOSE i \in 1..Len(p) :
                    Ch(p, i) = "/" /\ \A j \in (i + 1)..Len(p) : Ch(p, j) # "/"

Parent(p) == IF LastSlash(p) = 1 THEN "/" ELSE SubSeq(p, 1, LastSlash(p) - 1)

\* os.path.join(destination, backup_name)
Join(directory, name) ==
    IF Ch(directory, Len(directory)) = "/" THEN directory \o name
    ELSE directory \o "/" \o name

\* datetime.now().strftime("%Y%m%d_%H%M%S") at the time of the run
Timestamp == "20240101_120000"

\* f"backup_{timestamp}.{self.config['compression']}"
BackupName(cfg) == "backup_" \o Timestamp \o "." \o cfg.compression

RECURSIVE SourceErrors(_)
SourceErrors(sources) ==
    IF sources = <<>> THEN <<>>
    ELSE LET src == Head(sources)
             here == IF src \notin ExistingDirs \cup ExistingFiles
                     THEN <<"Source path does not exist: " \o src>>
                     ELSE IF src \notin ExistingDirs
                     THEN <<"Source path is not a directory: " \o src>>
                     ELSE <<>>
         IN  here \o SourceErrors(Tail(sources))

RECURSIVE DestinationErrors(_)
DestinationErrors(destinations) ==
    IF destinations = <<>> THEN <<>>
    ELSE LET destination == Head(destinations)
             here == IF Parent(destination) \notin ExistingDirs
                     THEN <<"Destination parent path does not exist: " \o destination>>
                     ELSE <<>>
         IN  here \o DestinationErrors(Tail(destinations))

validate_paths(cfg) ==
    SourceErrors(cfg.backup_sources) \o DestinationErrors(cfg.backup_destinations)

(***************************************************************************)
(* BackupManager: the steps of run_backup                                  *)
(***************************************************************************)
\* What the environment does to one destination: whether the archive can be
\* written ("partial": the file was opened and writing it failed), and the
\* return codes of gpg and of the upload command.
Outcomes == [archive : {"ok", "partial", "failed"}, gpg : BOOLEAN, upload : BOOLEAN]

\* tarfile.open / zipfile.ZipFile create the file, then the sources are added
create_backup_archive(fs, path, outcome) ==
    IF Parent(path) \notin ExistingDirs \/ outcome.archive = "failed"
    THEN [ok |-> FALSE, checksum |-> "None", files |-> fs]
    ELSE IF outcome.archive = "partial"
    THEN [ok |-> FALSE, checksum |-> "None", files |-> fs \cup {path}]
    ELSE [ok |-> TRUE, checksum |-> "md5", files |-> fs \cup {path}]

\* gpg writes filepath + '.gpg'; on return code 0 the plain file is removed
encrypt_backup(fs, cfg, filepath, outcome) ==
    IF ~cfg.encryption THEN [ok |-> TRUE, files |-> fs]
    ELSE IF cfg.encryption_key = "None" THEN [ok |-> FALSE, files |-> fs]
    ELSE IF outcome.gpg
    THEN [ok |-> TRUE, files |-> (fs \ {filepath}) \cup {filepath \o ".gpg"}]
    ELSE [ok |-> FALSE, files |-> fs]

\* aws s3 cp / gsutil cp of filepath: the copy of a file that does not exist
\* ends with a non-zero return code
sync_to_cloud(fs, cfg, filepath, outcome) ==
    IF cfg.cloud_storage = NoCloud THEN TRUE
    ELSE IF cfg.cloud_storage.type \in {"s3", "gcs"}
    THEN filepath \in fs /\ outcome.upload
    ELSE FALSE

\* datetime.now() - timedelta(days=retention_days) is computed outside the
\* try block of cleanup_old_backups: it raises TypeError for a value that is
\* not a number.  No file written by this run is older than the cutoff.
cleanup_old_backups(cfg) ==
    [raised |-> cfg.retention_days.type # "int"]

\* One pass of the loop  for destination in self.config['backup_destinations']
Iteration(fs, cfg, destination, outcome) ==
    LET path == Join(destination, BackupName(cfg))
        archive == create_backup_archive(fs, path, outcome)
        encrypt == encrypt_backup(archive.files, cfg, path, outcome)
        synced == sync_to_cloud(encrypt.files, cfg, path, outcome)
        cleanup == cleanup_old_backups(cfg)
        entry == [destination |-> destination, path |-> path,
                  archive |-> "failed", encrypt |-> "not reached",
                  sync |-> "not reached", sync_path_existed |-> FALSE,
                  cleanup |-> "not reached"]
    IN  IF ~archive.ok
        THEN [files |-> archive.files, checksum |-> archive.checksum, failed |-> TRUE,
              errors |-> <<"Failed to create archive in " \o destination>>,
              entry |-> entry]
        ELSE IF cfg.encryption /\ ~encrypt.ok
        THEN [files |-> encrypt.files, checksum |-> archive.checksum, failed |-> TRUE,
              errors |-> <<"Encryption failed for " \o destination>>,
              entry |-> [entry EXCEPT !.archive = "ok", !.encrypt = "failed"]]
        ELSE [files |-> encrypt.files, checksum |-> archive.checksum,
              failed |-> cleanup.raised,
              errors |-> (IF cfg.cloud_storage # NoCloud /\ ~synced
                          THEN <<"Cloud sync failed for " \o destination>> ELSE <<>>)
                         \o (IF cleanup.raised
                             THEN <<"Error in " \o destination \o ": TypeError">>
                             ELSE <<>>),
              entry |-> [entry EXCEPT
                  !.archive = "ok",
                  !.encrypt = IF cfg.encryption THEN "ok" ELSE "off",
                  !.sync = IF cfg.cloud_storage = NoCloud THEN "off"
                           ELSE IF synced THEN "ok" ELSE "failed",
                  !.sync_path_existed = cfg.cloud_storage # NoCloud
                                        /\ path \in encrypt.files,
                  !.cleanup = IF cleanup.raised THEN "raised" ELSE "ok"]]

\* BackupManager.generate_report: the report that is saved and printed
BackupReport(ok, path, sum, errs) ==
    <<[success |-> ok, backup_file |-> path, checksum |-> sum, errors |-> errs]>>

\* No LogAnalyzer has been constructed.
NoLog ==
    /\ source = "ok"
    /\ file = <<>>
    /\ line_num = 0
    /\ stats = InitStats
    /\ pc = "idle"
    /\ result = "None"
    /\ report = "None"
    /\ findings = <<>>
    /\ sections = NoSections
    /\ exit_status = Running

BackupInit ==
    /\ NoLog
    /\ config \in Configs
    /\ files = ExistingFiles
    /\ step = "start"
    /\ success = TRUE
    /\ backup_path = "None"
    /\ checksum = "None"
    /\ errors = <<>>
    /\ history = <<>>
    /\ backup_report = <<>>
    /\ returned = "None"

\* validation_errors = self.validate_paths(); if validation_errors: ...
\*     self.generate_report(False, None, None, start_time, validation_errors)
\*     return False
ValidationFails ==
    /\ step = "start"
    /\ validate_paths(config) # <<>>
    /\ backup_report' = BackupReport(FALSE, "None", "None", validate_paths(config))
    /\ returned' = "False"
    /\ step' = "returned"
    /\ UNCHANGED <<config, files, success, backup_path, checksum, errors, history>>
    /\ UNCHANGED log_vars

\* success = True; backup_path = None; checksum = None; errors = []
ValidationPasses ==
    /\ step = "start"
    /\ validate_paths(config) = <<>>
    /\ step' = "loop"
    /\ UNCHANGED <<config, files, success, backup_path, checksum, errors, history,
                   backup_report, returned>>
    /\ UNCHANGED log_vars

\* the body of the loop for the next destination
BackupDestination ==
    /\ step = "loop"
    /\ Len(history) < Len(config.backup_destinations)
    /\ \E outcome \in Outcomes :
          LET destination == config.backup_destinations[Len(history) + 1]
              it == Iteration(files, config, destination, outcome)
          IN  /\ files' = it.files
              /\ backup_path' = it.entry.path
              /\ checksum' = it.checksum
              /\ errors' = errors \o it.errors
              /\ success' = (success /\ ~it.failed)
              /\ history' = Append(history, it.entry)
    /\ UNCHANGED <<config, step, backup_report, returned>>
    /\ UNCHANGED log_vars

\* report = self.generate_report(success, backup_path, checksum, ...)
\* return success
BackupReturns ==
    /\ step = "loop"
    /\ Len(history) = Len(config.backup_destinations)
    /\ backup_report' = BackupReport(success, backup_path, checksum, errors)
    /\ returned' = IF success THEN "True" ELSE "False"
    /\ step' = "returned"
    /\ UNCHANGED <<config, files, success, backup_path, checksum, errors, history>>
    /\ UNCHANGED log_vars

BackupNext ==
    \/ ValidationFails
    \/ ValidationPasses
    \/ BackupDestination
    \/ BackupReturns

BackupSpec == BackupInit /\ [][BackupNext]_vars

(***************************************************************************)
(* Vocabulary of the properties                                            *)
(***************************************************************************)
\* The line that parse_log_file sees for the raw line of the file.
Seen(raw) == Strip(Decode(raw))

\* The raw lines that have been read so far.
ReadSoFar == 1..(line_num - 1)

Present(field) == field # "" /\ field # "-"

FirstHit(parts, hits) == IF hits = {} THEN {} ELSE {parts[Min(hits)]}

NoFields ==
    [status_codes |-> {}, top_pages |-> {}, top_ips |-> {},
     hourly_activity |-> {}, user_agents |-> {}, referrers |-> {}]

\* The key that a line contributes to each distribution: at most one each.
Extracted(line) ==
    LET m == log_pattern(line)
        parts == Split(line)
    IN  IF line = "" THEN NoFields
        ELSE IF m.matched
        THEN [status_codes    |-> {m.status},
              top_pages       |-> {m.url},
              top_ips         |-> {m.ip},
              hourly_activity |-> IF HourOf(m.timestamp).ok
                                  THEN {HourOf(m.timestamp).hour} ELSE {},
              user_agents     |-> IF Present(m.user_agent)
                                  THEN {Browser(m.user_agent)} ELSE {},
              referrers       |-> IF Present(m.referrer) THEN {m.referrer} ELSE {}]
        ELSE IF Len(parts) >= MinParts
        THEN [NoFields EXCEPT
                !.top_ips      = FirstHit(parts, IPHits(parts)),
                !.status_codes = FirstHit(parts, StatusHits(parts)),
                !.top_pages    = FirstHit(parts, URLHits(parts))]
        ELSE NoFields

Distributions == DOMAIN NoFields

\* At least one field, full or partial, was extracted from the line.
YieldsEntry(line) == \E d \in Distributions : Extracted(line)[d] # {}

\* The findings of one category about one piece of evidence.
FindingsOf(category, evidence) ==
    {k \in DOMAIN findings : findings[k] = Finding(category, evidence)}

Reported == pc = "done" /\ report = "LOG ANALYSIS REPORT"

(***************************************************************************)
(* C1: total_requests equals the number of non-blank lines read so far     *)
(* from which at least one field was extracted (a full entry, or an IP, a  *)
(* status code or a URL on the fallback path); a line that yields no field *)
(* is not counted.                                                         *)
(***************************************************************************)
C1_TotalCountsLinesWithAField ==
    stats.total_requests =
        Cardinality({i \in ReadSoFar : YieldsEntry(Seen(file[i]))})

(***************************************************************************)
(* C2: after every processed line the counts of status_codes sum to at     *)
(* most total_requests.                                                    *)
(***************************************************************************)
C2_StatusSumAtMostTotal ==
    SumCounts(stats.status_codes) <= stats.total_requests

\* A fallback line without a status code has been counted next to lines
\* with one: the sum is positive and strictly below the total.
C2_Witness ==
    /\ pc = "returned"
    /\ SumCounts(stats.status_codes) > 0
    /\ SumCounts(stats.status_codes) < stats.total_requests

(***************************************************************************)
(* C3: the browser bucket of a present user agent follows the precedence   *)
(* bot/crawler, edge, chrome, firefox, safari, otherwise Other, the first  *)
(* matching test winning.                                                  *)
(***************************************************************************)
PrecedenceBrowser(user_agent) ==
    LET ua == Lower(user_agent)
    IN  IF Contains(ua, "bot") \/ Contains(ua, "crawler") THEN "Bot/Crawler"
        ELSE IF Contains(ua, "edge") THEN "Edge"
        ELSE IF Contains(ua, "chrome") THEN "Chrome"
        ELSE IF Contains(ua, "firefox") THEN "Firefox"
        ELSE IF Contains(ua, "safari") THEN "Safari"
        ELSE "Other"

C3_BrowserPrecedence ==
    [][ (/\ AtLine
         /\ log_pattern(CurrentLine).matched
         /\ Present(log_pattern(CurrentLine).user_agent))
        => LET b == PrecedenceBrowser(log_pattern(CurrentLine).user_agent)
           IN  Count(stats'.user_agents, b) = Count(stats.user_agents, b) + 1 ]_vars

(***************************************************************************)
(* C4: a processed line whose user agent contains a suspicious-agent       *)
(* substring (case-insensitively) always produces a suspicious-user-agent  *)
(* finding that names that raw user-agent string.                          *)
(***************************************************************************)
IsSuspicious(user_agent) ==
    \E a \in DOMAIN suspicious_agents :
        Contains(Lower(user_agent), suspicious_agents[a])

C4_SuspiciousAgentReported ==
    Reported =>
        \A i \in DOMAIN file :
            LET m == log_pattern(Seen(file[i]))
            IN  (m.matched /\ IsSuspicious(m.user_agent))
                    => FindingsOf(SuspiciousAgent, m.user_agent) # {}

(***************************************************************************)
(* C5: for every attack category and every URL key, the scan emits         *)
(* exactly one finding when the URL contains at least one pattern of the   *)
(* category and none otherwise.                                            *)
(***************************************************************************)
MatchingPatterns(c, url) ==
    {p \in DOMAIN attack_patterns[c].patterns :
        Contains(Lower(url), attack_patterns[c].patterns[p])}

C5_OneFindingPerCategoryAndURL ==
    Reported =>
        \A c \in DOMAIN attack_patterns : \A url \in Keys(stats.top_pages) :
            Cardinality(FindingsOf(attack_patterns[c].name, url)) =
                (IF MatchingPatterns(c, url) # {} THEN 1 ELSE 0)

\* C5 as amended: the scan emits one finding for every pattern of the
\* category that the URL contains, so a URL that contains k patterns of a
\* category yields k findings for that (category, URL) pair and none when
\* it contains no pattern.
C5_OneFindingPerMatchingPattern ==
    Reported =>
        \A c \in DOMAIN attack_patterns : \A url \in Keys(stats.top_pages) :
            Cardinality(FindingsOf(attack_patterns[c].name, url)) =
                Cardinality(MatchingPatterns(c, url))

\* A URL that contains two patterns of one category has been reported.
C5_Witness ==
    /\ Reported
    /\ \E c \in DOMAIN attack_patterns : \E url \in Keys(stats.top_pages) :
          /\ Cardinality(MatchingPatterns(c, url)) = 2
          /\ Cardinality(FindingsOf(attack_patterns[c].name, url)) = 2

(***************************************************************************)
(* C6: the twelve sample lines yield total_requests = 12, status_codes =   *)
(* {200: 8, 404: 2, 403: 2}, exactly one suspicious-user-agent finding     *)
(* (for sqlmap/1.4.2) and three attack-pattern findings: XSS on the        *)
(* <script> URL and Path Traversal on the /etc/passwd URL, none for SQL    *)
(* Injection or Command Injection.                                         *)
(***************************************************************************)
WithCategory(category) ==
    {k \in DOMAIN findings : findings[k].category = category}

C6_SampleRun ==
    (file = create_sample_log /\ Reported) =>
        /\ stats.total_requests = 12
        /\ Keys(stats.status_codes) = {"200", "404", "403"}
        /\ Count(stats.status_codes, "200") = 8
        /\ Count(stats.status_codes, "404") = 2
        /\ Count(stats.status_codes, "403") = 2
        /\ Cardinality(WithCategory(SuspiciousAgent)) = 1
        /\ FindingsOf(SuspiciousAgent, "sqlmap/1.4.2") # {}
        /\ Cardinality(DOMAIN findings \ WithCategory(SuspiciousAgent)) = 3
        /\ FindingsOf("XSS", "/search?q=<script>alert('xss')</script>") # {}
        /\ FindingsOf("Path Traversal", "/../../../etc/passwd") # {}
        /\ WithCategory("SQL Injection") = {}
        /\ WithCategory("Command Injection") = {}

(***************************************************************************)
(* C7: a line that does not match the primary grammar and has fewer than   *)
(* 7 whitespace-separated tokens leaves total_requests and every           *)
(* distribution unchanged.                                                 *)
(***************************************************************************)
IsShortLine(line) ==
    /\ line # ""
    /\ ~log_pattern(line).matched
    /\ Len(Split(line)) < 7

C7_ShortLineChangesNothing ==
    [][ (AtLine /\ IsShortLine(CurrentLine)) => stats' = stats ]_vars

\* A short line with an IP, a status code and a URL on it has been read
\* after a line that was counted, and the statistics are those of the
\* first line alone.
C7_Witness ==
    /\ pc = "reading"
    /\ line_num = 3
    /\ IsShortLine(Seen(file[2]))
    /\ YieldsEntry(Seen(file[1]))
    /\ \E i \in DOMAIN Split(Seen(file[2])) : LooksLikeIP(Split(Seen(file[2]))[i])
    /\ stats.total_requests = 1

(***************************************************************************)
(* C8: processing one line that yields a full or partial entry adds        *)
(* exactly 1 to total_requests and exactly 1 to the counter of each        *)
(* extracted field's key, creating the key if absent, and leaves every     *)
(* other key of every distribution unchanged; so the same line processed   *)
(* twice raises every counter it touches by exactly 2.                     *)
(***************************************************************************)
AddsOneToEach(line) ==
    /\ stats'.total_requests = stats.total_requests + 1
    /\ \A d \in Distributions :
         \A k \in Keys(stats[d]) \cup Keys(stats'[d]) \cup Extracted(line)[d] :
            Count(stats'[d], k) =
                Count(stats[d], k) + (IF k \in Extracted(line)[d] THEN 1 ELSE 0)

SameLineTwice ==
    /\ Len(file) = 2
    /\ Seen(file[1]) = Seen(file[2])
    /\ YieldsEntry(Seen(file[1]))
    /\ pc = "returned"
    /\ result = "True"

C8_OnePerExtractedField ==
    /\ [][ (AtLine /\ YieldsEntry(CurrentLine)) => AddsOneToEach(CurrentLine) ]_vars
    /\ [](SameLineTwice =>
            /\ stats.total_requests = 2
            /\ \A d \in Distributions :
                 /\ Keys(stats[d]) = Extracted(Seen(file[1]))[d]
                 /\ \A k \in Keys(stats[d]) : Count(stats[d], k) = 2)

\* The same fully matching line has been processed twice.
C8_Witness ==
    /\ SameLineTwice
    /\ log_pattern(Seen(file[1])).matched
    /\ \A d \in Distributions : Keys(stats[d]) # {}

(***************************************************************************)
(* C9: when a line matches the primary grammar but its timestamp cannot be *)
(* parsed, the fallback heuristic is not run on it and only the hourly     *)
(* distribution is left unchanged: total_requests, the status-code, URL    *)
(* and IP counters, and (when present and not '-') the browser and         *)
(* referrer counters are each incremented by 1.                            *)
(***************************************************************************)
HasBadTimestamp(line) ==
    /\ log_pattern(line).matched
    /\ ~HourOf(log_pattern(line).timestamp).ok

AddsOne(before, after, k) ==
    /\ Count(after, k) = Count(before, k) + 1
    /\ SumCounts(after) = SumCounts(before) + 1

C9_BadTimestampSkipsOnlyHour ==
    [][ (AtLine /\ HasBadTimestamp(CurrentLine)) =>
            LET m == log_pattern(CurrentLine)
            IN  /\ stats'.hourly_activity = stats.hourly_activity
                /\ stats'.total_requests = stats.total_requests + 1
                /\ AddsOne(stats.status_codes, stats'.status_codes, m.status)
                /\ AddsOne(stats.top_pages, stats'.top_pages, m.url)
                /\ AddsOne(stats.top_ips, stats'.top_ips, m.ip)
                /\ IF Present(m.user_agent)
                   THEN AddsOne(stats.user_agents, stats'.user_agents,
                                Browser(m.user_agent))
                   ELSE stats'.user_agents = stats.user_agents
                /\ IF Present(m.referrer)
                   THEN AddsOne(stats.referrers, stats'.referrers, m.referrer)
                   ELSE stats'.referrers = stats.referrers ]_vars

\* A matching line with an unparseable timestamp, a user agent and a
\* referrer has been processed: everything but the hour is counted.
C9_Witness ==
    /\ pc = "reading"
    /\ line_num = 2
    /\ HasBadTimestamp(Seen(file[1]))
    /\ stats.total_requests = 1
    /\ stats.hourly_activity = <<>>
    /\ SumCounts(stats.user_agents) = 1
    /\ SumCounts(stats.referrers) = 1

(***************************************************************************)
(* C10: parse_log_file reports failure only when the source is missing or  *)
(* cannot be opened; for an openable source it consumes every line exactly *)
(* once in file order and reports success whatever the lines contain.      *)
(***************************************************************************)
Returned == pc \in {"returned", "done"}

C10_FailsOnlyOnSource ==
    /\ [](result = "False" => source # "ok")
    /\ []((Returned /\ source # "ok") => result = "False")
    /\ []((Returned /\ source = "ok") =>
            /\ result = "True"
            /\ line_num = Len(file) + 1)
    /\ [][ AtLine => (line_num' = line_num + 1 /\ pc' = "reading") ]_vars
    /\ [][ line_num' # line_num => (line_num' = line_num + 1 /\ pc' = "reading") ]_vars

\* A file with an unparseable timestamp, undecodable bytes and a line that
\* matches nothing has been read to its end with success.
C10_Witness ==
    /\ pc = "returned"
    /\ result = "True"
    /\ Len(file) = 2
    /\ line_num = 3
    /\ \E i \in DOMAIN file : HasBadTimestamp(Seen(file[i]))
    /\ \E i \in DOMAIN file : Decode(file[i]) # file[i]

(***************************************************************************)
(* C11: generate_report tests total_requests for zero first: with no       *)
(* counted line it prints the no-data notice and returns, so that no       *)
(* percentage is ever computed with a zero divisor (no ZeroDivisionError)  *)
(* and neither the report sections nor the security scan are produced;     *)
(* the statistics of such a run are all zero.                              *)
(***************************************************************************)
Finished == pc \in {"done", "exited"} /\ result = "True"

C11_NoDataBeforeDivisionAndScan ==
    /\ pc # "crashed"
    /\ report # "ZeroDivisionError"
    /\ sections # NoSections => stats.total_requests > 0
    /\ (Finished /\ stats.total_requests = 0) =>
            /\ stats = InitStats
            /\ report = "No valid log entries found!"
            /\ sections = NoSections
            /\ ~sections.security_checks
            /\ findings = <<>>

\* A file with a non-blank line has been read, nothing was counted, and
\* generate_report has returned.
C11_Witness ==
    /\ pc = "done"
    /\ stats.total_requests = 0
    /\ \E i \in DOMAIN file : Seen(file[i]) # ""

(***************************************************************************)
(* C12: the process exits with status 0 when the log file was read, and    *)
(* with a non-zero status when the log file is missing or cannot be        *)
(* opened.                                                                 *)
(***************************************************************************)
C12_ExitStatusTellsFailure ==
    pc = "exited" => (exit_status = 0 <=> source = "ok")

(***************************************************************************)
(* C13: every distribution of the report (status codes, pages, addresses,  *)
(* hours, browsers) is listed in descending order of count, keys of equal  *)
(* count in the order in which the input first showed them; the page and   *)
(* address lists hold the first 10 keys of that order, or all keys when    *)
(* there are fewer than 10.                                                *)
(***************************************************************************)
ReportedDistributions ==
    {"status_codes", "top_pages", "top_ips", "hourly_activity", "user_agents"}

\* What each line of the file contributes, line by line.
RECURSIVE ExtractedAll(_)
ExtractedAll(lines) ==
    IF lines = <<>> THEN <<>>
    ELSE <<Extracted(Seen(Head(lines)))>> \o ExtractedAll(Tail(lines))

\* The keys of a distribution in the order in which the input first shows them.
RECURSIVE FirstSeen(_, _)
FirstSeen(ex, d) ==
    IF ex = <<>> THEN <<>>
    ELSE LET earlier == FirstSeen(SubSeq(ex, 1, Len(ex) - 1), d)
             new == ex[Len(ex)][d] \ {earlier[j] : j \in DOMAIN earlier}
         IN  IF new = {} THEN earlier ELSE Append(earlier, CHOOSE k \in new : TRUE)

Occurrences(ex, d, k) == Cardinality({i \in DOMAIN ex : k \in ex[i][d]})

Position(seq, k) == CHOOSE j \in DOMAIN seq : seq[j] = k

C13_DescendingFirstSeenTopTen ==
    Reported =>
        LET ex == ExtractedAll(file)
        IN  \A d \in ReportedDistributions :
                LET rows == sections[d]
                    seen == FirstSeen(ex, d)
                    shown == {rows[r].key : r \in DOMAIN rows}
                IN  /\ Len(rows) = IF d \in {"top_pages", "top_ips"}
                                   THEN Min({10, Len(seen)})
                                   ELSE Len(seen)
                    /\ Cardinality(shown) = Len(rows)
                    /\ \A r \in DOMAIN rows :
                          /\ \E j \in DOMAIN seen : seen[j] = rows[r].key
                          /\ rows[r].n = Occurrences(ex, d, rows[r].key)
                    /\ \A r \in DOMAIN rows : \A j \in DOMAIN seen :
                          (\/ seen[j] \notin shown
                           \/ \E q \in DOMAIN rows : q > r /\ rows[q].key = seen[j])
                          => \/ rows[r].n > Occurrences(ex, d, seen[j])
                             \/ /\ rows[r].n = Occurrences(ex, d, seen[j])
                                /\ Position(seen, rows[r].key) < j

\* A report in which a key that came second is listed first because it was
\* seen more often, and in which keys of equal count are listed.
C13_Witness ==
    /\ Reported
    /\ \E d \in ReportedDistributions :
          /\ Len(stats[d]) >= 2
          /\ sections[d][1].key # stats[d][1].key
    /\ \E d \in ReportedDistributions : \E r \in DOMAIN sections[d] :
          /\ r + 1 \in DOMAIN sections[d]
          /\ sections[d][r].n = sections[d][r + 1].n

\* A report whose page list leaves out keys beyond the tenth.
C13_Truncated ==
    /\ Reported
    /\ Len(sections.top_pages) = 10
    /\ Len(stats.top_pages) > 10

(***************************************************************************)
(* C14: a processed line whose user agent contains both "chrome" and       *)
(* "safari" (in any letter case) and none of "bot", "crawler" and "edge"   *)
(* adds one to the count of "Chrome" and nothing to the count of "Safari". *)
(***************************************************************************)
ChromeAndSafari(user_agent) ==
    LET ua == Lower(user_agent)
    IN  /\ Contains(ua, "chrome")
        /\ Contains(ua, "safari")
        /\ ~Contains(ua, "bot")
        /\ ~Contains(ua, "crawler")
        /\ ~Contains(ua, "edge")

C14_ChromeNeverSafari ==
    [][ (/\ AtLine
         /\ log_pattern(CurrentLine).matched
         /\ ChromeAndSafari(log_pattern(CurrentLine).user_agent))
        => /\ Count(stats'.user_agents, "Chrome")
                = Count(stats.user_agents, "Chrome") + 1
           /\ Count(stats'.user_agents, "Safari")
                = Count(stats.user_agents, "Safari") ]_vars

\* A line with such a user agent has been processed.
C14_Witness ==
    /\ pc = "reading"
    /\ line_num = 2
    /\ log_pattern(Seen(file[1])).matched
    /\ ChromeAndSafari(log_pattern(Seen(file[1])).user_agent)
    /\ Count(stats.user_agents, "Chrome") = 1

(***************************************************************************)
(* C15: whenever run_backup calls sync_to_cloud, the path it hands over    *)
(* names a file that exists at that moment; and when encryption is on and  *)
(* succeeded for the last destination, the backup_file of the report is    *)
(* the encrypted '.gpg' file, which exists, not the removed plain archive. *)
(***************************************************************************)
SyncCalled(entry) == entry.sync \in {"ok", "failed"}

C15_UploadedFileExists ==
    /\ \A i \in DOMAIN history :
          SyncCalled(history[i]) => history[i].sync_path_existed
    /\ (/\ step = "returned"
        /\ history # <<>>
        /\ history[Len(history)].encrypt = "ok")
       => /\ backup_report[1].backup_file = history[Len(history)].path \o ".gpg"
          /\ backup_report[1].backup_file \in files

(***************************************************************************)
(* C16: run_backup returns True exactly when validate_paths reports no     *)
(* error and, at every configured destination, the archive was created and *)
(* the encryption, if enabled, succeeded.  A validation error returns      *)
(* False before any archive is made; a failed archive or encryption does   *)
(* not keep the remaining destinations from being processed; a failed      *)
(* cloud sync adds an error to the report and leaves the result alone.     *)
(***************************************************************************)
Stored(entry) == entry.archive = "ok" /\ entry.encrypt \in {"ok", "off"}

C16_TrueExactlyWhenAllStored ==
    step = "returned" =>
        /\ returned = "True" <=>
              /\ validate_paths(config) = <<>>
              /\ \A i \in DOMAIN history : Stored(history[i])
        /\ validate_paths(config) # <<>> =>
              /\ history = <<>>
              /\ files = ExistingFiles
              /\ backup_report[1].errors = validate_paths(config)
        /\ validate_paths(config) = <<>> =>
              /\ Len(history) = Len(config.backup_destinations)
              /\ \A i \in DOMAIN history :
                    history[i].destination = config.backup_destinations[i]
        /\ \A i \in DOMAIN history :
              history[i].sync = "failed" =>
                  \E e \in DOMAIN backup_report[1].errors :
                      backup_report[1].errors[e] =
                          "Cloud sync failed for " \o history[i].destination

=============================================================================
